---- MODULE Spec2Model ----
(***************************************************************************)
(* Coldwire-Desktop command-line front end (src/src/main.rs).              *)
(*                                                                         *)
(* Strings are sequences of one-character strings, so that splitting,      *)
(* case folding, number parsing and formatting are computed, not assumed.  *)
(* A Rust Option is a sequence of length 0 or 1; a Rust Result is a record *)
(* [val, err] of two such options, exactly one of them non-empty.          *)
(***************************************************************************)
EXTENDS Integers, Sequences, FiniteSets, TLC

VARIABLES
    args,       \* tokens pulled from env::args().skip(1) so far
    pc,         \* position in parse_args / the pipeline of the URL runs
    draft,      \* the mutable locals of parse_args (main.rs 46-55)
    result,     \* Option of the Result returned by parse_args
    url,        \* raw string handed to clean_server_url (URL runs)
    cleaned,    \* Option of clean_server_url(url)
    recleaned   \* Option of clean_server_url applied to its own output

vars == <<args, pc, draft, result, url, cleaned, recleaned>>

----------------------------------------------------------------------------
(* Option and Result *)

None == <<>>
Some(v) == <<v>>

Ok(v) == [val |-> <<v>>, err |-> <<>>]
Err(m) == [val |-> <<>>, err |-> <<m>>]
IsOk(r) == r.val # <<>>
IsErr(r) == r.err # <<>>

(* An error String: a fixed format text, the values formatted into its {}   *)
(* places, and (for a wrapped error) the inner error text.                  *)
Msg(f) == [fmt |-> f, args |-> <<>>, cause |-> ""]
Msg1(f, a) == [fmt |-> f, args |-> <<a>>, cause |-> ""]
MsgWrap(f, a, inner) == [fmt |-> f, args |-> <<a>>, cause |-> inner.fmt]

----------------------------------------------------------------------------
(* Characters and the std string primitives the program calls *)

Lowers == <<"a","b","c","d","e","f","g","h","i","j","k","l","m",
            "n","o","p","q","r","s","t","u","v","w","x","y","z">>
Uppers == <<"A","B","C","D","E","F","G","H","I","J","K","L","M",
            "N","O","P","Q","R","S","T","U","V","W","X","Y","Z">>
Digits == <<"0","1","2","3","4","5","6","7","8","9">>

Range(s) == {s[i] : i \in 1..Len(s)}
IndexIn(tbl, c) == CHOOSE i \in 1..Len(tbl) : tbl[i] = c

LowerSet == Range(Lowers)
UpperSet == Range(Uppers)
DigitSet == Range(Digits)
AlnumSet == LowerSet \cup UpperSet \cup DigitSet

to_lower_char(c) == IF c \in UpperSet THEN Lowers[IndexIn(Uppers, c)] ELSE c
to_upper_char(c) == IF c \in LowerSet THEN Uppers[IndexIn(Lowers, c)] ELSE c

to_ascii_lowercase(s) == [i \in 1..Len(s) |-> to_lower_char(s[i])]
to_ascii_uppercase(s) == [i \in 1..Len(s) |-> to_upper_char(s[i])]

is_ascii_alphanumeric(c) == c \in AlnumSet

starts_with(s, p) == Len(s) >= Len(p) /\ SubSeq(s, 1, Len(p)) = p

(* str::find / str::rfind: Option of the 1-based index of a match *)
find(s, p) ==
    LET hits == {i \in 1..(Len(s) - Len(p) + 1) : SubSeq(s, i, i + Len(p) - 1) = p}
    IN  IF hits = {} THEN None
        ELSE Some(CHOOSE i \in hits : \A j \in hits : i <= j)

rfind(s, c) ==
    LET hits == {i \in 1..Len(s) : s[i] = c}
    IN  IF hits = {} THEN None
        ELSE Some(CHOOSE i \in hits : \A j \in hits : i >= j)

U16_MAX == 65535

(* <u16 as FromStr>: an optional '+', then one or more ASCII digits, and a  *)
(* value that fits 16 bits; the accumulator saturates just above U16_MAX.   *)
RECURSIVE digits_value(_)
digits_value(s) ==
    IF s = <<>> THEN 0
    ELSE LET hi == digits_value(SubSeq(s, 1, Len(s) - 1))
             v  == hi * 10 + (IndexIn(Digits, s[Len(s)]) - 1)
         IN  IF hi > U16_MAX \/ v > U16_MAX THEN U16_MAX + 1 ELSE v

parse_u16(s) ==
    LET body == IF s # <<>> /\ s[1] = "+" THEN Tail(s) ELSE s
    IN  IF body = <<>> \/ \E i \in 1..Len(body) : body[i] \notin DigitSet
        THEN None
        ELSE IF digits_value(body) > U16_MAX THEN None
        ELSE Some(digits_value(body))

(* <u16 as Display> *)
RECURSIVE u16_to_string(_)
u16_to_string(n) ==
    IF n < 10 THEN <<Digits[n + 1]>>
    ELSE u16_to_string(n \div 10) \o <<Digits[(n % 10) + 1]>>

----------------------------------------------------------------------------
(* clean_server_url (main.rs 183-241) *)

MAX_URL_LEN == 512
MAX_HOST_LEN == 255

S_HTTP == <<"h","t","t","p">>
S_HTTPS == <<"h","t","t","p","s">>
S_SEP == <<":","/","/">>
S_LOCALHOST == <<"l","o","c","a","l","h","o","s","t">>

(* the (host, port_opt) split of the netloc on its last ':' (206-210) *)
split_host_port(netloc) ==
    LET i == rfind(netloc, ":")
    IN  IF i # None
        THEN [host |-> SubSeq(netloc, 1, i[1] - 1),
              port_opt |-> Some(SubSeq(netloc, i[1] + 1, Len(netloc)))]
        ELSE [host |-> netloc, port_opt |-> None]

(* a plausible slip: the character check is left out *)
host_error_no_charset(host) ==
    IF host = <<>> THEN Some(Msg("hostname empty"))
    ELSE IF Len(host) > MAX_HOST_LEN THEN Some(Msg("hostname too long (max 255 chars)"))
    ELSE IF host # S_LOCALHOST /\ "." \notin Range(host)
         THEN Some(Msg("hostname must contain a dot unless 'localhost'"))
    ELSE None

(* the hostname checks (212-227): Option of the error *)
host_error(host) ==
    IF host = <<>> THEN Some(Msg("hostname empty"))
    ELSE IF Len(host) > MAX_HOST_LEN THEN Some(Msg("hostname too long (max 255 chars)"))
    ELSE IF host # S_LOCALHOST
              /\ \E i \in 1..Len(host) :
                    ~(is_ascii_alphanumeric(host[i]) \/ host[i] = "." \/ host[i] = "-")
         THEN Some(Msg("hostname contains invalid characters"))
    ELSE IF host # S_LOCALHOST /\ "." \notin Range(host)
         THEN Some(Msg("hostname must contain a dot unless 'localhost'"))
    ELSE None

(* a plausible slip: the host is lower-cased when the URL is reassembled *)
format_url_lower_host(scheme, host, port_opt) ==
    IF port_opt # None
    THEN IF port_opt[1] = <<>> THEN Err(Msg("port is empty"))
         ELSE IF parse_u16(port_opt[1]) = None THEN Err(Msg("port is not a valid number"))
         ELSE Ok(scheme \o S_SEP \o to_ascii_lowercase(host) \o <<":">>
                 \o u16_to_string(parse_u16(port_opt[1])[1]))
    ELSE Ok(scheme \o S_SEP \o to_ascii_lowercase(host))

(* the port check and the reassembly (229-240) *)
format_url(scheme, host, port_opt) ==
    IF port_opt # None
    THEN IF port_opt[1] = <<>> THEN Err(Msg("port is empty"))
         ELSE IF parse_u16(port_opt[1]) = None THEN Err(Msg("port is not a valid number"))
         ELSE Ok(scheme \o S_SEP \o host \o <<":">> \o u16_to_string(parse_u16(port_opt[1])[1]))
    ELSE Ok(scheme \o S_SEP \o host)

(* a plausible slip: the scheme is prepended whatever the input starts with *)
with_scheme_always(raw) == S_HTTPS \o S_SEP \o raw

(* prepend "https://" unless a scheme is there, compared case-insensitively (188-191) *)
with_scheme(raw) ==
    LET lower == to_ascii_lowercase(raw)
    IN  IF ~starts_with(lower, S_HTTP \o S_SEP) /\ ~starts_with(lower, S_HTTPS \o S_SEP)
        THEN S_HTTPS \o S_SEP \o raw
        ELSE raw

clean_server_url(raw) ==
    IF Len(raw) > MAX_URL_LEN THEN Err(Msg("URL too long (max 512 chars)"))
    ELSE
    LET u == with_scheme(raw)
        cut == find(u, S_SEP)
    IN  IF cut = None THEN Err(Msg("missing scheme"))
        ELSE
        LET scheme == SubSeq(u, 1, cut[1] - 1)
            rest   == SubSeq(u, cut[1] + 3, Len(u))
            slash  == find(rest, <<"/">>)
            netloc == IF slash = None THEN rest ELSE SubSeq(rest, 1, slash[1] - 1)
            hp     == split_host_port(netloc)
        IN  IF scheme # S_HTTP /\ scheme # S_HTTPS
            THEN Err(Msg1("unsupported scheme '{}'", scheme))
            ELSE IF host_error(hp.host) # None THEN Err(host_error(hp.host)[1])
            ELSE format_url(scheme, hp.host, hp.port_opt)

----------------------------------------------------------------------------
(* parse_proxy_addr (main.rs 248-278) *)

parse_proxy_addr_bracketed(s) ==
    LET closing == find(s, <<"]">>)
    IN  IF closing = None THEN Err(Msg("missing closing ']' for IPv6"))
        ELSE
        LET host == SubSeq(s, 2, closing[1] - 1)
            rest == SubSeq(s, closing[1] + 1, Len(s))
            port_str == Tail(rest)
        IN  IF ~starts_with(rest, <<":">>) THEN Err(Msg("Missing ':' after IPv6 address"))
            ELSE IF port_str = <<>> THEN Err(Msg("Port is empty"))
            ELSE IF parse_u16(port_str) = None THEN Err(Msg("Port is not a valid number"))
            ELSE Ok([host |-> host, port |-> parse_u16(port_str)[1]])

parse_proxy_addr_plain(s) ==
    LET i == rfind(s, ":")
        port_str == IF i = None THEN s ELSE SubSeq(s, i[1] + 1, Len(s))
        host == IF i = None THEN <<>> ELSE SubSeq(s, 1, i[1] - 1)
    IN  IF host = <<>> \/ port_str = <<>> THEN Err(Msg("Empty host or port"))
        ELSE IF parse_u16(port_str) = None THEN Err(Msg("Port is not a valid number"))
        ELSE Ok([host |-> host, port |-> parse_u16(port_str)[1]])

parse_proxy_addr(s) ==
    IF starts_with(s, <<"[">>) THEN parse_proxy_addr_bracketed(s)
    ELSE parse_proxy_addr_plain(s)

----------------------------------------------------------------------------
(* The flag tokens matched by parse_args (main.rs 59-123) *)

F_SERVER == <<"-","-","s","e","r","v","e","r">>
F_STATE_FILE == <<"-","-","s","t","a","t","e","-","f","i","l","e">>
F_USE_PROXY == <<"-","-","u","s","e","-","p","r","o","x","y">>
F_PROXY_TYPE == <<"-","-","p","r","o","x","y","-","t","y","p","e">>
F_PROXY_ADDR == <<"-","-","p","r","o","x","y","-","a","d","d","r">>
F_PROXY_USER == <<"-","-","p","r","o","x","y","-","u","s","e","r">>
F_PROXY_PASS == <<"-","-","p","r","o","x","y","-","p","a","s","s">>
F_DEBUG == <<"-","-","d","e","b","u","g">>
F_HELP == <<"-","-","h","e","l","p">>
F_H == <<"-","h">>

T_HTTP == <<"H","T","T","P">>
T_SOCKS4 == <<"S","O","C","K","S","4">>
T_SOCKS5 == <<"S","O","C","K","S","5">>

DEFAULT_PROXY_ADDR == <<"1","2","7",".","0",".","0",".","1",":","9","0","5","0">>

----------------------------------------------------------------------------
(* parse_args (main.rs 43-172) *)

(* the locals as declared at 46-55 *)
InitDraft ==
    [server_url |-> None, state_file_path |-> None, use_proxy |-> FALSE,
     proxy_type |-> "Socks5", proxy_addr |-> None, proxy_user |-> None,
     proxy_pass |-> None, debug |-> FALSE]

(* One pass of the loop body either goes on with an updated draft or        *)
(* returns from parse_args: ret is the Option of the returned Result.       *)
Continue(d) == [draft |-> d, ret |-> None]
Return(d, r) == [draft |-> d, ret |-> Some(r)]

(* The arms of the match. nxt is what args.next() yields inside the arm.    *)
(* a plausible slip: a value already set is kept, so the first one wins *)
arm_server_keep_first(d, nxt) ==
    IF nxt # None
    THEN Continue(IF d.server_url = None THEN [d EXCEPT !.server_url = Some(nxt[1])] ELSE d)
    ELSE Return(d, Err(Msg("--server requires a value")))

arm_server(d, nxt) ==
    IF nxt # None THEN Continue([d EXCEPT !.server_url = Some(nxt[1])])
    ELSE Return(d, Err(Msg("--server requires a value")))

arm_state_file(d, nxt) ==
    IF nxt # None THEN Continue([d EXCEPT !.state_file_path = Some(nxt[1])])
    ELSE Return(d, Err(Msg("--state-file requires a file name / path")))

(* a plausible slip: the flag is accepted and the draft is left alone *)
arm_use_proxy_ignored(d) == Continue(d)

arm_use_proxy(d) == Continue([d EXCEPT !.use_proxy = TRUE])

arm_proxy_type(d, nxt) ==
    IF nxt # None
    THEN LET v_up == to_ascii_uppercase(nxt[1])
         IN  IF v_up = T_HTTP THEN Continue([d EXCEPT !.proxy_type = "Http"])
             ELSE IF v_up = T_SOCKS4 THEN Continue([d EXCEPT !.proxy_type = "Socks4"])
             ELSE IF v_up = T_SOCKS5 THEN Continue([d EXCEPT !.proxy_type = "Socks5"])
             ELSE Return(d, Err(Msg1("Invalid proxy type: {} (allowed: HTTP, SOCKS4, SOCKS5)",
                                     v_up)))
    ELSE Return(d, Err(Msg("--proxy-type requires a value")))

arm_proxy_addr(d, nxt) ==
    IF nxt # None THEN Continue([d EXCEPT !.proxy_addr = Some(nxt[1])])
    ELSE Return(d, Err(Msg("--proxy-addr requires a value")))

arm_proxy_user(d, nxt) ==
    IF nxt # None THEN Continue([d EXCEPT !.proxy_user = Some(nxt[1])])
    ELSE Return(d, Err(Msg("--proxy-user requires a value")))

arm_proxy_pass(d, nxt) ==
    IF nxt # None THEN Continue([d EXCEPT !.proxy_pass = Some(nxt[1])])
    ELSE Return(d, Err(Msg("--proxy-pass requires a value")))

arm_debug(d) == Continue([d EXCEPT !.debug = TRUE])

arm_help(d) == Return(d, Err(Msg("help")))

arm_other(d, other) == Return(d, Err(Msg1("Unknown argument: {}", other)))

(* the arms that call args.next() for a value *)
ValueFlags ==
    {F_SERVER, F_STATE_FILE, F_PROXY_TYPE, F_PROXY_ADDR, F_PROXY_USER, F_PROXY_PASS}

(* a plausible slip: the short form is missing from the help arm *)
HelpFlagsLongOnly == {F_HELP}

HelpFlags == {F_HELP, F_H}

(* match arg.as_str() { ... } (58-130) *)
match_arg(d, arg, nxt) ==
    IF arg = F_SERVER THEN arm_server(d, nxt)
    ELSE IF arg = F_STATE_FILE THEN arm_state_file(d, nxt)
    ELSE IF arg = F_USE_PROXY THEN arm_use_proxy(d)
    ELSE IF arg = F_PROXY_TYPE THEN arm_proxy_type(d, nxt)
    ELSE IF arg = F_PROXY_ADDR THEN arm_proxy_addr(d, nxt)
    ELSE IF arg = F_PROXY_USER THEN arm_proxy_user(d, nxt)
    ELSE IF arg = F_PROXY_PASS THEN arm_proxy_pass(d, nxt)
    ELSE IF arg = F_DEBUG THEN arm_debug(d)
    ELSE IF arg \in HelpFlags THEN arm_help(d)
    ELSE arm_other(d, arg)

(* a plausible slip: an explicit address requests the proxy too *)
proxy_requested_or_addr(d) == d.use_proxy \/ d.proxy_addr # None

(* the condition of "let proxy = if use_proxy" (148) *)
proxy_requested(d) == d.use_proxy

(* build proxy info if requested (147-164): Result of Option<ProxyInfo> *)
build_proxy(d) ==
    IF proxy_requested(d)
    THEN LET addr == IF d.proxy_addr # None THEN d.proxy_addr[1] ELSE DEFAULT_PROXY_ADDR
             hp == parse_proxy_addr(addr)
         IN  IF IsErr(hp)
             THEN Err(MsgWrap("Invalid proxy address '{}': {}", addr, hp.err[1]))
             ELSE Ok(Some([ptype |-> d.proxy_type, host |-> hp.val[1].host,
                           port |-> hp.val[1].port, username |-> d.proxy_user,
                           password |-> d.proxy_pass]))
    ELSE Ok(None)

(* a plausible slip: the state file is checked before the server *)
post_scan_state_first(d) ==
    IF d.state_file_path = None THEN Err(Msg("--state-file is required"))
    ELSE IF d.server_url = None THEN Err(Msg("--server is required"))
    ELSE IF IsErr(clean_server_url(d.server_url[1])) THEN clean_server_url(d.server_url[1])
    ELSE IF IsErr(build_proxy(d)) THEN Err(build_proxy(d).err[1])
    ELSE Ok([server_url |-> clean_server_url(d.server_url[1]).val[1],
             state_file_path |-> d.state_file_path[1],
             proxy |-> build_proxy(d).val[1],
             debug |-> d.debug])

(* what follows the loop (133-171) *)
post_scan(d) ==
    IF d.server_url = None THEN Err(Msg("--server is required"))
    ELSE IF IsErr(clean_server_url(d.server_url[1])) THEN clean_server_url(d.server_url[1])
    ELSE IF d.state_file_path = None THEN Err(Msg("--state-file is required"))
    ELSE IF IsErr(build_proxy(d)) THEN Err(build_proxy(d).err[1])
    ELSE Ok([server_url |-> clean_server_url(d.server_url[1]).val[1],
             state_file_path |-> d.state_file_path[1],
             proxy |-> build_proxy(d).val[1],
             debug |-> d.debug])

(* parse_args as a function of the whole argument list *)
RECURSIVE scan_from(_, _, _)
scan_from(d, argv, i) ==
    IF i > Len(argv) THEN post_scan(d)
    ELSE LET arg == argv[i]
             takes == arg \in ValueFlags
             nxt == IF takes /\ i + 1 <= Len(argv) THEN Some(argv[i + 1]) ELSE None
             r == match_arg(d, arg, nxt)
         IN  IF r.ret # None THEN r.ret[1]
             ELSE scan_from(r.draft, argv, IF takes THEN i + 2 ELSE i + 1)

parse_args(argv) == scan_from(InitDraft, argv, 1)

(* main (280-317): the exit status for a Result of parse_args *)
is_help(r) == IsErr(r) /\ r.err[1] = Msg("help")
exit_code(r) == IF IsOk(r) \/ is_help(r) THEN 0 ELSE 1

----------------------------------------------------------------------------
(* Inputs *)

MaxArgs == 4
MaxLongArgs == 7
MaxRepeatArgs == 6
MaxHostPieces == 2

V_HOSTPORT == <<"a",".","b",":","1">>
V_TYPE == <<"h","t","t","p">>
V_BRACKET == <<"[","]",":","1">>
V_PATH == <<"s",".","d","b">>

ValueTokens == {V_HOSTPORT, V_TYPE, V_BRACKET}

FlagTokens ==
    {F_SERVER, F_STATE_FILE, F_USE_PROXY, F_PROXY_TYPE, F_PROXY_ADDR,
     F_PROXY_USER, F_PROXY_PASS, F_DEBUG, F_HELP, F_H}

(* the command-line tokens of the general runs *)
Tokens == FlagTokens \cup ValueTokens

(* the values of the long runs, per flag *)
LongServerValues == {V_HOSTPORT, V_TYPE}
LongStateFileValues == {V_PATH, F_DEBUG}
LongProxyTypeValues == {V_TYPE, V_HOSTPORT}
LongProxyAddrValues == {V_HOSTPORT, V_BRACKET, V_TYPE}
LongProxyUserValues == {V_PATH, F_USE_PROXY}
LongProxyPassValues == {V_PATH, V_TYPE}
LongOtherTokens == {V_PATH}

(* the raw server strings of the URL runs: prefix, host pieces, port, tail *)
Repeat(c, n) == [i \in 1..n |-> c]

LongLabel == Repeat("a", MAX_HOST_LEN - 2) \o <<".","b">>
LongTail == <<"/">> \o Repeat("p", MAX_URL_LEN - MAX_HOST_LEN)

UrlPrefixes ==
    {<<>>, <<"h","t","t","p",":","/","/">>, <<"h","t","t","p","s",":","/","/">>, <<"H","T","T","P",":","/","/">>, <<"f","t","p",":","/","/">>, <<":","/","/">>}

HostPieces ==
    {<<"a">>, <<".">>, <<"-">>, <<"_">>, <<"B",".","c">>, S_LOCALHOST, LongLabel}

PortSuffixes ==
    {<<>>, <<":">>, <<":","8","0">>, <<":","0","8","0">>, <<":","+","8","0">>, <<":","6","5","5","3","5">>, <<":","6","5","5","3","6">>, <<":","8","x">>, <<":","1",":","2">>}

UrlTails == {<<>>, <<"/","p",":","9">>, LongTail}

RECURSIVE Hosts(_)
Hosts(n) ==
    IF n = 0 THEN {<<>>}
    ELSE Hosts(n - 1) \cup {h \o p : h \in Hosts(n - 1), p \in HostPieces}

UrlInputs ==
    {pre \o h \o port \o tail :
        pre \in UrlPrefixes, h \in Hosts(MaxHostPieces),
        port \in PortSuffixes, tail \in UrlTails}

----------------------------------------------------------------------------
(* The runs of parse_args: one step per pass of the loop at 57-131. The     *)
(* argument iterator is read lazily, so a token enters args when it is      *)
(* pulled by args.next().                                                   *)

Init ==
    /\ args = <<>>
    /\ pc = "scan"
    /\ draft = InitDraft
    /\ result = None
    /\ url = <<>>
    /\ cleaned = None
    /\ recleaned = None

NextOf(T) == {None} \cup {Some(v) : v \in T}

Step(arg, nxt) ==
    LET r == match_arg(draft, arg, nxt)
    IN  /\ args' = args \o <<arg>> \o nxt
        /\ draft' = r.draft
        /\ result' = r.ret
        /\ pc' = IF r.ret = None THEN "scan" ELSE "scan_return"
        /\ UNCHANGED <<url, cleaned, recleaned>>

ScanServer(T, max) ==
    /\ pc = "scan"
    /\ \E nxt \in NextOf(T) :
          /\ Len(args) + 1 + Len(nxt) <= max
          /\ Step(F_SERVER, nxt)

ScanStateFile(T, max) ==
    /\ pc = "scan"
    /\ \E nxt \in NextOf(T) :
          /\ Len(args) + 1 + Len(nxt) <= max
          /\ Step(F_STATE_FILE, nxt)

ScanProxyType(T, max) ==
    /\ pc = "scan"
    /\ \E nxt \in NextOf(T) :
          /\ Len(args) + 1 + Len(nxt) <= max
          /\ Step(F_PROXY_TYPE, nxt)

ScanProxyAddr(T, max) ==
    /\ pc = "scan"
    /\ \E nxt \in NextOf(T) :
          /\ Len(args) + 1 + Len(nxt) <= max
          /\ Step(F_PROXY_ADDR, nxt)

ScanProxyUser(T, max) ==
    /\ pc = "scan"
    /\ \E nxt \in NextOf(T) :
          /\ Len(args) + 1 + Len(nxt) <= max
          /\ Step(F_PROXY_USER, nxt)

ScanProxyPass(T, max) ==
    /\ pc = "scan"
    /\ \E nxt \in NextOf(T) :
          /\ Len(args) + 1 + Len(nxt) <= max
          /\ Step(F_PROXY_PASS, nxt)

ScanUseProxy(max) ==
    /\ pc = "scan"
    /\ Len(args) + 1 <= max
    /\ Step(F_USE_PROXY, None)

ScanDebug(max) ==
    /\ pc = "scan"
    /\ Len(args) + 1 <= max
    /\ Step(F_DEBUG, None)

ScanHelp(max) ==
    /\ pc = "scan"
    /\ Len(args) + 1 <= max
    /\ \E arg \in {F_HELP, F_H} : Step(arg, None)

ScanOther(T, max) ==
    /\ pc = "scan"
    /\ Len(args) + 1 <= max
    /\ \E arg \in T \ FlagTokens : Step(arg, None)

(* args.next() yields nothing at the head of the loop: 133-171 run *)
Finish ==
    /\ pc = "scan"
    /\ result' = Some(post_scan(draft))
    /\ pc' = "final_return"
    /\ UNCHANGED <<args, draft, url, cleaned, recleaned>>

Next ==
    \/ ScanServer(Tokens, MaxArgs)
    \/ ScanStateFile(Tokens, MaxArgs)
    \/ ScanUseProxy(MaxArgs)
    \/ ScanProxyType(Tokens, MaxArgs)
    \/ ScanProxyAddr(Tokens, MaxArgs)
    \/ ScanProxyUser(Tokens, MaxArgs)
    \/ ScanProxyPass(Tokens, MaxArgs)
    \/ ScanDebug(MaxArgs)
    \/ ScanHelp(MaxArgs)
    \/ ScanOther(Tokens, MaxArgs)
    \/ Finish

Spec == Init /\ [][Next]_vars

(* longer command lines, each flag's value drawn from its own small set *)
NextLong ==
    \/ ScanServer(LongServerValues, MaxLongArgs)
    \/ ScanStateFile(LongStateFileValues, MaxLongArgs)
    \/ ScanUseProxy(MaxLongArgs)
    \/ ScanProxyType(LongProxyTypeValues, MaxLongArgs)
    \/ ScanProxyAddr(LongProxyAddrValues, MaxLongArgs)
    \/ ScanProxyUser(LongProxyUserValues, MaxLongArgs)
    \/ ScanProxyPass(LongProxyPassValues, MaxLongArgs)
    \/ ScanDebug(MaxLongArgs)
    \/ ScanHelp(MaxLongArgs)
    \/ ScanOther(LongOtherTokens, MaxLongArgs)
    \/ Finish

SpecLong == Init /\ [][NextLong]_vars

(* the same command lines, shorter: the runs of the repeated-flag property *)
NextRepeat ==
    \/ ScanServer(LongServerValues, MaxRepeatArgs)
    \/ ScanStateFile(LongStateFileValues, MaxRepeatArgs)
    \/ ScanUseProxy(MaxRepeatArgs)
    \/ ScanProxyType(LongProxyTypeValues, MaxRepeatArgs)
    \/ ScanProxyAddr(LongProxyAddrValues, MaxRepeatArgs)
    \/ ScanProxyUser(LongProxyUserValues, MaxRepeatArgs)
    \/ ScanProxyPass(LongProxyPassValues, MaxRepeatArgs)
    \/ ScanDebug(MaxRepeatArgs)
    \/ ScanHelp(MaxRepeatArgs)
    \/ ScanOther(LongOtherTokens, MaxRepeatArgs)
    \/ Finish

SpecRepeat == Init /\ [][NextRepeat]_vars

----------------------------------------------------------------------------
(* The URL runs: clean_server_url on a raw string, on its own output, and   *)
(* parse_args on a command line that carries the raw string.                *)

InitUrl ==
    /\ url \in UrlInputs
    /\ pc = "url_start"
    /\ args = <<>>
    /\ draft = InitDraft
    /\ result = None
    /\ cleaned = None
    /\ recleaned = None

CleanUrl ==
    /\ pc = "url_start"
    /\ cleaned' = Some(clean_server_url(url))
    /\ pc' = "url_cleaned"
    /\ UNCHANGED <<args, draft, result, url, recleaned>>

RecleanUrl ==
    /\ pc = "url_cleaned"
    /\ IsOk(cleaned[1])
    /\ recleaned' = Some(clean_server_url(cleaned[1].val[1]))
    /\ pc' = "url_recleaned"
    /\ UNCHANGED <<args, draft, result, url, cleaned>>

RunParser ==
    /\ pc \in {"url_cleaned", "url_recleaned"}
    /\ pc = "url_cleaned" => IsErr(cleaned[1])
    /\ args' = <<F_SERVER, url, F_STATE_FILE, V_PATH>>
    /\ result' = Some(parse_args(args'))
    /\ pc' = "url_parsed"
    /\ UNCHANGED <<draft, url, cleaned, recleaned>>

NextUrl == CleanUrl \/ RecleanUrl \/ RunParser

SpecUrl == InitUrl /\ [][NextUrl]_vars

----------------------------------------------------------------------------
(* Vocabulary of the properties *)

Returned == pc \in {"scan_return", "final_return"}

Outcome == result[1]
Config == result[1].val[1]

(* The positions at which the scan reads a token as a flag: the first one,  *)
(* and after each token the next one, or the one after the value of a       *)
(* value-taking flag.                                                        *)
RECURSIVE FlagPositionsFrom(_, _)
FlagPositionsFrom(argv, i) ==
    IF i > Len(argv) THEN {}
    ELSE {i} \cup FlagPositionsFrom(argv, IF argv[i] \in ValueFlags THEN i + 2 ELSE i + 1)

FlagPositions(argv) == FlagPositionsFrom(argv, 1)

Recognised(argv, flag) == \E i \in FlagPositions(argv) : argv[i] = flag

(* the flag positions that hold `flag` followed by a value *)
PairPositions(argv, flag) ==
    {i \in FlagPositions(argv) : argv[i] = flag /\ i + 1 <= Len(argv)}

RemovePair(argv, i) == SubSeq(argv, 1, i - 1) \o SubSeq(argv, i + 2, Len(argv))

ValidProxyType(v) == to_ascii_uppercase(v) \in {T_HTTP, T_SOCKS4, T_SOCKS5}

----------------------------------------------------------------------------
(* C1, as stated: whenever --help or -h is among the tokens, at any         *)
(* position, parse_args returns the help outcome.                           *)
C1_HelpAnywhere ==
    (Returned /\ \E i \in 1..Len(args) : args[i] \in {F_HELP, F_H})
        => is_help(Outcome)

(* C1, amended: whenever the scan reads --help or -h as a flag (the tokens  *)
(* before it were accepted and it is not the value of a value-taking flag), *)
(* parse_args returns the help outcome, no Configuration, and main exits 0. *)
C1_HelpAtFlagPosition ==
    (Returned /\ \E i \in FlagPositions(args) : args[i] \in {F_HELP, F_H})
        => /\ Outcome = Err(Msg("help"))
           /\ Outcome.val = None
           /\ exit_code(Outcome) = 0

(* a help token taken as a value, then a help token read as a flag *)
C1_Witness ==
    /\ pc = "scan_return"
    /\ Len(args) = 3
    /\ args[1] \in ValueFlags
    /\ args[2] = F_HELP
    /\ args[3] = F_H
    /\ is_help(Outcome)

----------------------------------------------------------------------------
(* C3, as stated: a returned Configuration has a ProxyInfo if and only if   *)
(* --use-proxy is among the command-line tokens.                            *)
C3_ProxyIffTokenSupplied ==
    (Returned /\ IsOk(Outcome))
        => (Config.proxy # None <=> \E i \in 1..Len(args) : args[i] = F_USE_PROXY)

(* C3, amended: a returned Configuration has a ProxyInfo if and only if     *)
(* --use-proxy was read as a flag, not taken as the value of another flag.  *)
C3_ProxyIffFlagRecognised ==
    (Returned /\ IsOk(Outcome))
        => (Config.proxy # None <=> Recognised(args, F_USE_PROXY))

(* both sides at once: --use-proxy as a value and --use-proxy as a flag *)
C3_Witness ==
    /\ pc = "final_return"
    /\ IsOk(Outcome)
    /\ Config.proxy # None
    /\ \E i \in 1..Len(args) : args[i] = F_USE_PROXY /\ i \notin FlagPositions(args)

----------------------------------------------------------------------------
(* C7, as stated: a --proxy-type value that is none of HTTP, SOCKS4, SOCKS5 *)
(* after upper-casing fails with "Invalid proxy type: <raw> (allowed: ...)" *)
(* where <raw> is the value exactly as supplied; every letter-case variant  *)
(* of the three names is accepted.                                          *)
C7_InvalidTypeEchoesRaw ==
    \A i \in PairPositions(args, F_PROXY_TYPE) :
        IF ValidProxyType(args[i + 1])
        THEN i + 1 = Len(args) => pc # "scan_return"
        ELSE /\ pc = "scan_return"
             /\ i + 1 = Len(args)
             /\ Outcome = Err(Msg1(
                    "Invalid proxy type: {} (allowed: HTTP, SOCKS4, SOCKS5)", args[i + 1]))

----------------------------------------------------------------------------
ProxyDetailFlags == {F_PROXY_TYPE, F_PROXY_ADDR, F_PROXY_USER, F_PROXY_PASS}

(* C2 reads an inserted pair backwards: the command line at hand holds the  *)
(* pair, and the one it was inserted into is the command line without it.   *)
(* A run that returned from inside the loop returns the same whatever       *)
(* tokens follow, so the tokens pulled decide both outcomes.                *)

(* C2, as stated: when --use-proxy is never read as a flag, any             *)
(* --proxy-type, --proxy-addr, --proxy-user or --proxy-pass pair, whatever  *)
(* its value, leaves the outcome as it is without the pair, and a returned  *)
(* Configuration has no proxy.                                              *)
C2_AnyProxyPairInert ==
    (Returned /\ ~Recognised(args, F_USE_PROXY))
        => /\ \A f \in ProxyDetailFlags : \A i \in PairPositions(args, f) :
                 parse_args(RemovePair(args, i)) = Outcome
           /\ IsOk(Outcome) => Config.proxy = None

(* C2, amended: the same for every --proxy-addr, --proxy-user and           *)
(* --proxy-pass pair, and for a --proxy-type pair whose value is a          *)
(* letter-case variant of HTTP, SOCKS4 or SOCKS5.                           *)
C2_ValidProxyPairInert ==
    (Returned /\ ~Recognised(args, F_USE_PROXY))
        => /\ \A f \in ProxyDetailFlags : \A i \in PairPositions(args, f) :
                 (f = F_PROXY_TYPE => ValidProxyType(args[i + 1]))
                     => parse_args(RemovePair(args, i)) = Outcome
           /\ IsOk(Outcome) => Config.proxy = None

(* a Configuration returned for a command line that holds a proxy address   *)
C2_Witness ==
    /\ pc = "final_return"
    /\ IsOk(Outcome)
    /\ ~Recognised(args, F_USE_PROXY)
    /\ PairPositions(args, F_PROXY_ADDR) # {}
    /\ Config.proxy = None

----------------------------------------------------------------------------
(* C4: when the scan completes, parse_args reports the first failure in the *)
(* order server (missing, or rejected by clean_server_url), state file      *)
(* missing, proxy address rejected under use_proxy; the proxy-address error *)
(* is wrapped as "Invalid proxy address '<addr>': <validator error>"; and   *)
(* an error comes with no Configuration.                                    *)
C4_FirstFailureInOrder ==
    pc = "final_return" =>
        LET serverBad == draft.server_url = None
                            \/ IsErr(clean_server_url(draft.server_url[1]))
            stateBad == draft.state_file_path = None
            addr == IF draft.proxy_addr = None THEN DEFAULT_PROXY_ADDR
                    ELSE draft.proxy_addr[1]
            proxyBad == draft.use_proxy /\ IsErr(parse_proxy_addr(addr))
        IN  /\ draft.server_url = None => Outcome = Err(Msg("--server is required"))
            /\ (draft.server_url # None /\ serverBad)
                   => Outcome = Err(clean_server_url(draft.server_url[1]).err[1])
            /\ (~serverBad /\ stateBad) => Outcome = Err(Msg("--state-file is required"))
            /\ (~serverBad /\ ~stateBad /\ proxyBad)
                   => Outcome = Err([fmt |-> "Invalid proxy address '{}': {}",
                                     args |-> <<addr>>,
                                     cause |-> parse_proxy_addr(addr).err[1].fmt])
            /\ IsErr(Outcome) <=> (serverBad \/ stateBad \/ proxyBad)
            /\ IsErr(Outcome) => Outcome.val = None

(* the last check is the one that fails: server and state file are fine     *)
C4_Witness ==
    /\ pc = "final_return"
    /\ draft.server_url # None
    /\ IsOk(clean_server_url(draft.server_url[1]))
    /\ draft.state_file_path # None
    /\ draft.use_proxy
    /\ draft.proxy_addr # None
    /\ IsErr(parse_proxy_addr(draft.proxy_addr[1]))
    /\ IsErr(Outcome)

----------------------------------------------------------------------------
(* C10, as stated: in every Configuration that has a ProxyInfo, host is a   *)
(* non-empty string and port is in 0..65535, for the bracketed and the      *)
(* unbracketed form of the proxy address.                                   *)
C10_ProxyHostNonEmpty ==
    (Returned /\ IsOk(Outcome) /\ Config.proxy # None)
        => /\ Config.proxy[1].host # <<>>
           /\ Config.proxy[1].port \in 0..U16_MAX

----------------------------------------------------------------------------
(* every occurrence of `flag` as a flag, with or without a value *)
Occurrences(argv, flag) == {i \in FlagPositions(argv) : argv[i] = flag}

LastOccurrence(argv, flag) ==
    CHOOSE i \in Occurrences(argv, flag) : \A j \in Occurrences(argv, flag) : j <= i

(* the values of the occurrences before the last one *)
EarlierValues(argv, flag) ==
    IF Occurrences(argv, flag) = {} THEN {}
    ELSE {argv[i + 1] : i \in Occurrences(argv, flag) \ {LastOccurrence(argv, flag)}}

RECURSIVE Without(_, _, _)
Without(argv, drop, i) ==
    IF i > Len(argv) THEN <<>>
    ELSE (IF i \in drop THEN <<>> ELSE <<argv[i]>>) \o Without(argv, drop, i + 1)

(* argv with every occurrence of `flag` but the last removed, value included *)
KeepLast(argv, flag) ==
    IF Occurrences(argv, flag) = {} THEN argv
    ELSE LET early == Occurrences(argv, flag) \ {LastOccurrence(argv, flag)}
         IN  Without(argv, early \cup {i + 1 : i \in early}, 1)

(* args.next() has yielded nothing: at the head of the loop, or inside the  *)
(* arm of a value-taking flag that is the last token                        *)
Exhausted ==
    \/ pc = "final_return"
    \/ /\ pc = "scan_return"
       /\ Len(args) \in FlagPositions(args)
       /\ args[Len(args)] \in ValueFlags

(* A run that returned from inside the loop on a token left the rest of the *)
(* command line unread: the command line is args followed by any tokens at  *)
(* all. The continuations that add a later occurrence of `flag`:            *)
UnreadRests(flag) ==
    IF Exhausted THEN {<<>>}
    ELSE {<<>>, <<flag, V_TYPE>>, <<flag, V_HOSTPORT>>}

(* the outcome of such a run is the outcome of every continuation           *)
UnreadTokensInert ==
    Returned =>
        \A flag \in ValueFlags : \A rest \in UnreadRests(flag) :
            parse_args(args \o rest) = Outcome

(* C8, as stated: for each value-taking flag, the outcome equals the        *)
(* outcome on the command line with all but the last occurrence of that     *)
(* flag, and their values, removed.                                         *)
C8_LastWinsEveryFlag ==
    Returned =>
        \A flag \in ValueFlags : \A rest \in UnreadRests(flag) :
            parse_args(KeepLast(args \o rest, flag)) = Outcome

(* C8, amended: the same for --server, --state-file, --proxy-addr,          *)
(* --proxy-user and --proxy-pass, and for --proxy-type when every earlier   *)
(* value of it is a letter-case variant of HTTP, SOCKS4 or SOCKS5.          *)
C8_LastWinsValidTypes ==
    Returned =>
        \A flag \in ValueFlags : \A rest \in UnreadRests(flag) :
            (flag = F_PROXY_TYPE
                => \A v \in EarlierValues(args \o rest, flag) : ValidProxyType(v))
                => parse_args(KeepLast(args \o rest, flag)) = Outcome

(* a Configuration returned after --server was given two different values   *)
C8_Witness ==
    /\ pc = "final_return"
    /\ IsOk(Outcome)
    /\ Cardinality({args[i + 1] : i \in PairPositions(args, F_SERVER)}) = 2
    /\ Config.server_url = clean_server_url(args[LastOccurrence(args, F_SERVER) + 1]).val[1]

----------------------------------------------------------------------------
(* The grammar of C5, written out on the string itself *)

GoodHost(h) ==
    \/ h = S_LOCALHOST
    \/ /\ h # <<>>
       /\ Len(h) <= 255
       /\ \A i \in 1..Len(h) : is_ascii_alphanumeric(h[i]) \/ h[i] \in {".", "-"}
       /\ \E i \in 1..Len(h) : h[i] = "."

GoodPort(p) ==
    /\ p # <<>>
    /\ \A i \in 1..Len(p) : p[i] \in DigitSet
    /\ digits_value(p) <= 65535

WellFormedServerUrl(u) ==
    \E scheme \in {S_HTTP, S_HTTPS} :
        /\ starts_with(u, scheme \o S_SEP)
        /\ LET rest == SubSeq(u, Len(scheme) + 4, Len(u))
           IN  /\ "/" \notin Range(rest)
               /\ \/ GoodHost(rest)
                  \/ \E k \in 1..Len(rest) :
                        /\ rest[k] = ":"
                        /\ GoodHost(SubSeq(rest, 1, k - 1))
                        /\ GoodPort(SubSeq(rest, k + 1, Len(rest)))

(* C5: in every Configuration returned by parse_args, server_url is         *)
(* scheme://host or scheme://host:port with scheme exactly http or https,   *)
(* host localhost or a non-empty string of at most 255 ASCII alphanumeric,  *)
(* '.' or '-' characters with at least one '.', port a decimal number in    *)
(* 0..65535, and no path; it is the output of clean_server_url, and a raw   *)
(* value that clean_server_url rejects yields no Configuration.             *)
C5_ServerUrlWellFormed ==
    pc = "url_parsed" =>
        /\ IsOk(Outcome) => /\ WellFormedServerUrl(Config.server_url)
                            /\ IsOk(cleaned[1])
                            /\ Config.server_url = cleaned[1].val[1]
        /\ IsErr(cleaned[1]) => IsErr(Outcome)

(* a Configuration whose server_url is neither the raw value nor the raw    *)
(* value behind "https://": a path was dropped or a port rewritten          *)
C5_Witness ==
    /\ pc = "url_parsed"
    /\ IsOk(Outcome)
    /\ Config.server_url \notin {url, S_HTTPS \o S_SEP \o url}

----------------------------------------------------------------------------
(* C6: clean_server_url is idempotent: where it returns u for a raw string, *)
(* it returns u for u, and parse_args run again with --server u returns the *)
(* same outcome.                                                            *)
C6_CleanIdempotent ==
    /\ recleaned # None => recleaned[1] = cleaned[1]
    /\ (pc = "url_parsed" /\ IsOk(Outcome))
           => parse_args(<<F_SERVER, Config.server_url, F_STATE_FILE, V_PATH>>) = Outcome

(* a raw value with no scheme, cleaned twice *)
C6_Witness ==
    /\ recleaned # None
    /\ IsOk(recleaned[1])
    /\ ~starts_with(url, S_HTTP)
    /\ starts_with(recleaned[1].val[1], S_HTTPS \o S_SEP \o url)

----------------------------------------------------------------------------
(* the scheme, host and port substrings clean_server_url extracts (193-210) *)
Extracted(raw) ==
    LET u == with_scheme(raw)
        cut == find(u, S_SEP)[1]
        rest == SubSeq(u, cut + 3, Len(u))
        slash == find(rest, <<"/">>)
        netloc == IF slash = None THEN rest ELSE SubSeq(rest, 1, slash[1] - 1)
    IN  [scheme |-> SubSeq(u, 1, cut - 1),
         host |-> split_host_port(netloc).host,
         port_opt |-> split_host_port(netloc).port_opt]

(* a port substring without its '+' sign and its leading zeros *)
RECURSIVE StripZeros(_)
StripZeros(s) == IF Len(s) > 1 /\ s[1] = "0" THEN StripZeros(Tail(s)) ELSE s

CanonicalPort(p) == StripZeros(IF p[1] = "+" THEN Tail(p) ELSE p)

(* C9, as stated: an accepted raw string yields the lowercase scheme,       *)
(* "://", the host substring as extracted (case preserved) and, when a port *)
(* was present, ":" and the port substring exactly as extracted.            *)
C9_PortAsExtracted ==
    (cleaned # None /\ IsOk(cleaned[1])) =>
        LET e == Extracted(url)
        IN  /\ e.scheme \in {S_HTTP, S_HTTPS}
            /\ cleaned[1].val[1] =
                  e.scheme \o S_SEP \o e.host
                  \o (IF e.port_opt = None THEN <<>> ELSE <<":">> \o e.port_opt[1])

(* C9, amended: ... and, when a port was present, ":" and the port in       *)
(* canonical decimal: the port substring without a leading '+' and without  *)
(* leading zeros.                                                           *)
C9_PortCanonical ==
    (cleaned # None /\ IsOk(cleaned[1])) =>
        LET e == Extracted(url)
        IN  /\ e.scheme \in {S_HTTP, S_HTTPS}
            /\ cleaned[1].val[1] =
                  e.scheme \o S_SEP \o e.host
                  \o (IF e.port_opt = None THEN <<>>
                      ELSE <<":">> \o CanonicalPort(e.port_opt[1]))

(* an accepted raw string with an upper-case host and a port that is not    *)
(* in canonical form                                                        *)
C9_Witness ==
    /\ cleaned # None
    /\ IsOk(cleaned[1])
    /\ Extracted(url).port_opt # None
    /\ CanonicalPort(Extracted(url).port_opt[1]) # Extracted(url).port_opt[1]
    /\ \E i \in 1..Len(Extracted(url).host) : Extracted(url).host[i] \in UpperSet

====
